---- MODULE Spec2Model ----
(***************************************************************************)
(* A model of cstar/base/utils.py: the node/core distribution arithmetic,  *)
(* the git helpers (clone-and-checkout, remote URL, HEAD hash, checkout    *)
(* target resolution) and the writer of the C-Star config file.  One       *)
(* behaviour of the model is one call of one of the module's functions, or *)
(* a sequence of calls of _write_to_config_file on one file: Init draws    *)
(* the function and its arguments, the actions execute its body, every     *)
(* subprocess.run being one step whose exit code and captured output are   *)
(* chosen by the environment.                                              *)
(*                                                                         *)
(* Python str values that the code inspects (re.match, split, strip, len)  *)
(* are sequences of one-character strings; text that the code only passes  *)
(* on (stderr) is an opaque string.                                        *)
(***************************************************************************)
EXTENDS Integers, Sequences, FiniteSets, TLC

VARIABLES
    op,                  \* the function being called
    pc,                  \* position in its body
    n_cores_required,    \* argument of _calculate_node_distribution
    tot_cores_per_node,  \* argument of _calculate_node_distribution
    checkout_target,     \* argument of _get_hash_from_checkout_target
    runs,                \* the subprocess.run calls made so far, in order
    result,              \* how the call ended: a returned value or a raised exception
    config_file,         \* the file at _CSTAR_CONFIG_FILE: whether it exists, its content
    file_at_start,       \* history: config_file before the first call
    written              \* history: the arguments of the _write_to_config_file calls, in order

vars ==
    <<op, pc, n_cores_required, tot_cores_per_node, checkout_target, runs, result,
      config_file, file_at_start, written>>

\* the file system, which only _write_to_config_file touches
file_state == <<config_file, file_at_start, written>>

AbsentFile == [exists |-> FALSE, content |-> <<>>]

----------------------------------------------------------------------------
(* Bounds of the model *)

MaxCores == 256
MaxCoresPerNode == 128
MaxNonPositive == 3

CoresRequiredArgs == (0 - MaxNonPositive) .. MaxCores
CoresPerNodeArgs == (0 - MaxNonPositive) .. MaxCoresPerNode

----------------------------------------------------------------------------
(* Outcomes of a call *)

NoResult == [kind |-> "none"]
Return(v) == [kind |-> "return", value |-> v]
Raise(e) == [kind |-> "raise", exc |-> e]
RaiseWith(e, code, text) == [kind |-> "raise", exc |-> e, code |-> code, text |-> text]

----------------------------------------------------------------------------
(* _calculate_node_distribution *)

\* floor(num / den): the rounding taken the wrong way.
Floor(num, den) ==
    IF den > 0 THEN num \div den ELSE (0 - num) \div (0 - den)

\* ceil(num / den) for den # 0, the value math.ceil gives to Python's true
\* division.  The quotient is a float; for operands of the size modelled
\* here (far below 2^53) the float is within 2^-52 relative error of the
\* rational and equal to it when the rational is an integer, so its ceiling
\* is the ceiling of the rational.
Ceil(num, den) ==
    IF den > 0 THEN 0 - ((0 - num) \div den) ELSE 0 - (num \div (0 - den))

\* The deficit added instead of subtracted.
calculate_node_distribution_sign(c, n) ==
    IF n = 0 THEN Raise("ZeroDivisionError")
    ELSE LET n_nodes_to_request == Ceil(c, n) IN
         IF n_nodes_to_request = 0 THEN Raise("ZeroDivisionError")
         ELSE Return(<<n_nodes_to_request,
                       Ceil(n * n_nodes_to_request + ((n_nodes_to_request * n) - c),
                            n_nodes_to_request)>>)

\* The node count taken as floor(c / n) + 1.
calculate_node_distribution_extra_node(c, n) ==
    IF n = 0 THEN Raise("ZeroDivisionError")
    ELSE LET n_nodes_to_request == Floor(c, n) + 1 IN
         IF n_nodes_to_request = 0 THEN Raise("ZeroDivisionError")
         ELSE Return(<<n_nodes_to_request,
                       Ceil(n * n_nodes_to_request - ((n_nodes_to_request * n) - c),
                            n_nodes_to_request)>>)

\* The balancing step dropped: every node is requested in full.
calculate_node_distribution_unbalanced(c, n) ==
    IF n = 0 THEN Raise("ZeroDivisionError")
    ELSE Return(<<Ceil(c, n), n>>)

\* n_nodes_to_request = ceil(c / n);
\* cores_to_request_per_node = ceil(n - ((nodes * n) - c) / nodes), the
\* subtraction being over the common denominator `nodes`.
\* A zero divisor raises ZeroDivisionError.
calculate_node_distribution(c, n) ==
    IF n = 0 THEN Raise("ZeroDivisionError")
    ELSE LET n_nodes_to_request == Ceil(c, n) IN
         IF n_nodes_to_request = 0 THEN Raise("ZeroDivisionError")
         ELSE LET cores_to_request_per_node ==
                      Ceil(n * n_nodes_to_request - ((n_nodes_to_request * n) - c),
                           n_nodes_to_request)
              IN Return(<<n_nodes_to_request, cores_to_request_per_node>>)

InitAlloc ==
    /\ op = "calculate_node_distribution"
    /\ pc = "call"
    /\ n_cores_required \in CoresRequiredArgs
    /\ tot_cores_per_node \in CoresPerNodeArgs
    /\ checkout_target = <<>>
    /\ runs = <<>>
    /\ result = NoResult
    /\ config_file = AbsentFile
    /\ file_at_start = AbsentFile
    /\ written = <<>>

CalculateNodeDistribution ==
    /\ op = "calculate_node_distribution"
    /\ pc = "call"
    /\ result' = calculate_node_distribution(n_cores_required, tot_cores_per_node)
    /\ pc' = "done"
    /\ UNCHANGED <<op, n_cores_required, tot_cores_per_node, checkout_target, runs>>
    /\ UNCHANGED file_state

----------------------------------------------------------------------------
(* Python str operations *)

\* str.isspace() for the characters of the model
Whitespace == {" ", "\t", "\n", "\r", "\f"}

RECURSIVE LStrip(_)
LStrip(s) ==
    IF s # <<>> /\ Head(s) \in Whitespace THEN LStrip(Tail(s)) ELSE s

RECURSIVE RStrip(_)
RStrip(s) ==
    IF s # <<>> /\ s[Len(s)] \in Whitespace
    THEN RStrip(SubSeq(s, 1, Len(s) - 1))
    ELSE s

\* str.strip(): leading and trailing whitespace removed
Strip(s) == RStrip(LStrip(s))

\* the longest prefix of s free of whitespace
RECURSIVE TakeWord(_)
TakeWord(s) ==
    IF s = <<>> \/ Head(s) \in Whitespace THEN <<>>
    ELSE <<Head(s)>> \o TakeWord(Tail(s))

\* str.split(): the maximal whitespace-free runs of s, in order
RECURSIVE Split(_)
Split(s) ==
    LET t == LStrip(s) IN
    IF t = <<>> THEN <<>>
    ELSE LET w == TakeWord(t) IN
         <<w>> \o Split(SubSeq(t, Len(w) + 1, Len(t)))

\* the character class [0-9a-f]
HexDigits ==
    {"0", "1", "2", "3", "4", "5", "6", "7", "8", "9", "a", "b", "c", "d", "e", "f"}

\* bool(re.match(r"^[0-9a-f]{k}$", s)): k characters of the class from the
\* start of s, then $, which (no MULTILINE flag) matches at the end of the
\* string and also just before a newline that is the last character.
ReMatchHex(s, k) ==
    /\ Len(s) >= k
    /\ \A i \in 1..k : s[i] \in HexDigits
    /\ \/ Len(s) = k
       \/ Len(s) = k + 1 /\ s[k + 1] = "\n"

----------------------------------------------------------------------------
(* _get_hash_from_checkout_target *)

ShortHashLen == 7
FullHashLen == 40

is_potential_hash(target) ==
    ReMatchHex(target, ShortHashLen) \/ ReMatchHex(target, FullHashLen)

\* The body after subprocess.run: ls_remote is the captured stdout.
\* ls_remote.split()[0] raises IndexError when split() is empty.
get_hash_from_checkout_target(target, ls_remote) ==
    IF Len(ls_remote) = 0
    THEN IF is_potential_hash(target) THEN Return(target)
         ELSE Raise("ValueError")
    ELSE IF Split(ls_remote) = <<>> THEN Raise("IndexError")
         ELSE Return(Split(ls_remote)[1])

----------------------------------------------------------------------------
(* subprocess.run: what the environment may answer *)

MaxTargetLen == 41
MaxOutputLen == 3

ExitCodes == {0, 1, 128}
ErrTexts == {"", "fatal: error"}
OutputChars == {"b", "\t", "\n"}

\* Every captured stdout of the model.  git writes to stdout nothing, or
\* records that start with their first field (a hash, a URL), diagnostics
\* going to stderr: a non-empty stdout does not start with whitespace.
Outputs ==
    {out \in UNION {[1..k -> OutputChars] : k \in 0..MaxOutputLen} :
        out = <<>> \/ out[1] \notin Whitespace}

Rep(ch, k) == [i \in 1..k |-> ch]

\* checkout targets: k hex characters, possibly with the first or the last
\* one replaced (by a digit, a letter outside a-f, an upper-case hex letter),
\* possibly followed by a newline
TargetBodies ==
    {Rep("a", k) : k \in 0..MaxTargetLen}
    \cup {[Rep("a", k) EXCEPT ![i] = ch] :
              k \in 1..MaxTargetLen, i \in {1}, ch \in {"9", "g", "F"}}
    \cup {[Rep("a", k) EXCEPT ![k] = ch] :
              k \in 1..MaxTargetLen, ch \in {"9", "g", "F"}}

Targets == {b \o suffix : b \in TargetBodies, suffix \in {<<>>, <<"\n">>}}

Run(cmd, rc, out, err) ==
    [cmd |-> cmd, returncode |-> rc, stdout |-> out, stderr |-> err]

InitHash ==
    /\ op = "get_hash_from_checkout_target"
    /\ pc = "call"
    /\ n_cores_required = 0
    /\ tot_cores_per_node = 0
    /\ checkout_target \in Targets
    /\ runs = <<>>
    /\ result = NoResult
    /\ config_file = AbsentFile
    /\ file_at_start = AbsentFile
    /\ written = <<>>

\* git ls-remote is run whatever the target; only its stdout is read.
GetHashFromCheckoutTarget ==
    /\ op = "get_hash_from_checkout_target"
    /\ pc = "call"
    /\ \E rc \in ExitCodes, out \in Outputs, err \in ErrTexts :
          /\ runs' = Append(runs, Run("ls-remote", rc, out, err))
          /\ result' = get_hash_from_checkout_target(checkout_target, out)
    /\ pc' = "done"
    /\ UNCHANGED <<op, n_cores_required, tot_cores_per_node, checkout_target>>
    /\ UNCHANGED file_state

----------------------------------------------------------------------------
(* _get_repo_remote, _get_repo_head_hash *)

\* .stdout.strip() of the completed process; returncode is not read
get_repo_remote(completed) == Return(Strip(completed.stdout))

get_repo_head_hash(completed) == Return(Strip(completed.stdout))

InitQuery ==
    /\ op \in {"get_repo_remote", "get_repo_head_hash"}
    /\ pc = "call"
    /\ n_cores_required = 0
    /\ tot_cores_per_node = 0
    /\ checkout_target = <<>>
    /\ runs = <<>>
    /\ result = NoResult
    /\ config_file = AbsentFile
    /\ file_at_start = AbsentFile
    /\ written = <<>>

GetRepoRemote ==
    /\ op = "get_repo_remote"
    /\ pc = "call"
    /\ \E rc \in ExitCodes, out \in Outputs, err \in ErrTexts :
          LET completed == Run("remote get-url", rc, out, err) IN
          /\ runs' = Append(runs, completed)
          /\ result' = get_repo_remote(completed)
    /\ pc' = "done"
    /\ UNCHANGED <<op, n_cores_required, tot_cores_per_node, checkout_target>>
    /\ UNCHANGED file_state

GetRepoHeadHash ==
    /\ op = "get_repo_head_hash"
    /\ pc = "call"
    /\ \E rc \in ExitCodes, out \in Outputs, err \in ErrTexts :
          LET completed == Run("rev-parse", rc, out, err) IN
          /\ runs' = Append(runs, completed)
          /\ result' = get_repo_head_hash(completed)
    /\ pc' = "done"
    /\ UNCHANGED <<op, n_cores_required, tot_cores_per_node, checkout_target>>
    /\ UNCHANGED file_state

----------------------------------------------------------------------------
(* _clone_and_checkout *)

\* The clone's exit code not looked at.
after_clone_unchecked(clone_result) == [pc |-> "checkout", result |-> NoResult]

\* if clone_result.returncode != 0: raise RuntimeError(...), the message
\* holding the return code and stderr; else go on to the checkout
after_clone(clone_result) ==
    IF clone_result.returncode # 0
    THEN [pc |-> "done",
          result |-> RaiseWith("RuntimeError", clone_result.returncode,
                               clone_result.stderr)]
    ELSE [pc |-> "checkout", result |-> NoResult]

\* if checkout_result.returncode != 0: raise RuntimeError(...); else the
\* function ends and returns None
after_checkout(checkout_result) ==
    IF checkout_result.returncode # 0
    THEN [pc |-> "done",
          result |-> RaiseWith("RuntimeError", checkout_result.returncode,
                               checkout_result.stderr)]
    ELSE [pc |-> "done", result |-> Return("None")]

InitClone ==
    /\ op = "clone_and_checkout"
    /\ pc = "clone"
    /\ n_cores_required = 0
    /\ tot_cores_per_node = 0
    /\ checkout_target = <<>>
    /\ runs = <<>>
    /\ result = NoResult
    /\ config_file = AbsentFile
    /\ file_at_start = AbsentFile
    /\ written = <<>>

\* subprocess.run("git clone ...") and the test of its return code
GitClone ==
    /\ op = "clone_and_checkout"
    /\ pc = "clone"
    /\ \E rc \in ExitCodes, err \in ErrTexts :
          LET clone_result == Run("clone", rc, <<>>, err) IN
          /\ runs' = Append(runs, clone_result)
          /\ pc' = after_clone(clone_result).pc
          /\ result' = after_clone(clone_result).result
    /\ UNCHANGED <<op, n_cores_required, tot_cores_per_node, checkout_target>>
    /\ UNCHANGED file_state

\* subprocess.run("git checkout ...", cwd=local_path) and the test of its
\* return code
GitCheckout ==
    /\ op = "clone_and_checkout"
    /\ pc = "checkout"
    /\ \E rc \in ExitCodes, err \in ErrTexts :
          LET checkout_result == Run("checkout", rc, <<>>, err) IN
          /\ runs' = Append(runs, checkout_result)
          /\ pc' = after_checkout(checkout_result).pc
          /\ result' = after_checkout(checkout_result).result
    /\ UNCHANGED <<op, n_cores_required, tot_cores_per_node, checkout_target>>
    /\ UNCHANGED file_state

----------------------------------------------------------------------------
(* _write_to_config_file *)

MaxCalls == 3
MaxStrLen == 2

\* Text written to the file is a sequence of pieces: the literals of the
\* code, and single characters for the caller's text.  Python's + and the
\* append of f.write are concatenation.
ConfigChars == {"x", "\n"}

\* the values of the argument config_file_str
ConfigStrs == UNION {[1..k -> ConfigChars] : k \in 0..MaxStrLen}

\* base_conf_str as the code builds it: three comment literals joined with
\* no newline between them, then += the imports, then += the def line
base_conf_str ==
    (<<"# This file was generated by C-Star and is specific to your machine. ">>
        \o <<"# It contains environment information related to your cases & their dependencies. ">>
        \o <<"# You can safely delete this file, but C-Star may prompt you to re-install things if so.">>)
    \o <<"\n", "import os", "\n",
         "from cstar.base.environment import _CSTAR_ENVIRONMENT_VARIABLES", "\n">>
    \o <<"def get_user_environment():", "\n">>

\* The existence test dropped: the header goes before every argument.
write_to_config_file_header_always(file, config_file_str) ==
    [exists |-> TRUE, content |-> file.content \o (base_conf_str \o config_file_str)]

\* The file opened with mode "w": the old content is lost.
write_to_config_file_truncating(file, config_file_str) ==
    [exists |-> TRUE,
     content |-> IF ~file.exists THEN base_conf_str \o config_file_str
                 ELSE config_file_str]

\* The file after the call.  If it does not exist the header is put before
\* the argument; open(..., "a") creates a missing file and f.write puts the
\* string after the content there is.
write_to_config_file(file, config_file_str) ==
    LET to_write == IF ~file.exists THEN base_conf_str \o config_file_str
                    ELSE config_file_str
    IN [exists |-> TRUE, content |-> file.content \o to_write]

\* files the first call may find: none, an empty one, one with some text,
\* one that holds the header already
StartFiles ==
    {AbsentFile,
     [exists |-> TRUE, content |-> <<>>],
     [exists |-> TRUE, content |-> <<"x">>],
     [exists |-> TRUE, content |-> base_conf_str]}

InitWrite ==
    /\ op = "write_to_config_file"
    /\ pc = "call"
    /\ n_cores_required = 0
    /\ tot_cores_per_node = 0
    /\ checkout_target = <<>>
    /\ runs = <<>>
    /\ result = NoResult
    /\ config_file \in StartFiles
    /\ file_at_start = config_file
    /\ written = <<>>

\* one call _write_to_config_file(config_file_str); it returns None and the
\* function may be called again
WriteToConfigFile ==
    /\ op = "write_to_config_file"
    /\ pc = "call"
    /\ Len(written) < MaxCalls
    /\ \E config_file_str \in ConfigStrs :
          /\ config_file' = write_to_config_file(config_file, config_file_str)
          /\ written' = Append(written, config_file_str)
    /\ result' = Return("None")
    /\ UNCHANGED <<op, pc, n_cores_required, tot_cores_per_node, checkout_target,
                   runs, file_at_start>>

----------------------------------------------------------------------------

Init == InitClone \/ InitQuery \/ InitWrite \/ InitHash \/ InitAlloc

Next ==
    \/ CalculateNodeDistribution
    \/ GetHashFromCheckoutTarget
    \/ GetRepoRemote
    \/ GetRepoHeadHash
    \/ GitClone
    \/ GitCheckout
    \/ WriteToConfigFile

Spec == Init /\ [][Next]_vars

Done == pc = "done"

----------------------------------------------------------------------------
(* Properties of _calculate_node_distribution *)

AllocDone == op = "calculate_node_distribution" /\ pc = "done"

ValidRequest == n_cores_required >= 1 /\ tot_cores_per_node >= 1

\* C1: for cores_required >= 1 and tot_cores_per_node >= 1 the call returns
\* a plan that covers the request: nodes * cores_per_node_requested >=
\* cores_required.
C1_PlanCoversRequest ==
    AllocDone /\ ValidRequest =>
        /\ result.kind = "return"
        /\ result.value[1] * result.value[2] >= n_cores_required

\* a request over several nodes whose plan holds more cores than asked for
C1_Witness ==
    /\ AllocDone /\ ValidRequest
    /\ n_cores_required > tot_cores_per_node
    /\ result.kind = "return"
    /\ result.value[1] * result.value[2] > n_cores_required

\* C2: for cores_required >= 1 and tot_cores_per_node >= 1 the plan never
\* asks for more cores per node than a node has.
C2_WithinNode ==
    AllocDone /\ ValidRequest =>
        /\ result.kind = "return"
        /\ result.value[2] <= tot_cores_per_node

\* a request over several nodes that takes every node in full
C2_Witness ==
    /\ AllocDone /\ ValidRequest
    /\ n_cores_required > tot_cores_per_node
    /\ result.kind = "return"
    /\ result.value[2] = tot_cores_per_node

\* C3: for c >= 1 and n >= 1 the call returns (N, P), N the smallest node
\* count with N * n >= c and P the smallest per-node count with N * P >= c.
C3_ExactPlan ==
    AllocDone /\ ValidRequest =>
        /\ result.kind = "return"
        /\ LET N == result.value[1]
               P == result.value[2]
           IN /\ N * tot_cores_per_node >= n_cores_required
              /\ (N - 1) * tot_cores_per_node < n_cores_required
              /\ N * P >= n_cores_required
              /\ N * (P - 1) < n_cores_required

\* three or more nodes, none taken in full, the cores not dividing evenly
C3_Witness ==
    /\ AllocDone /\ ValidRequest
    /\ result.kind = "return"
    /\ result.value[1] >= 3
    /\ result.value[2] < tot_cores_per_node
    /\ result.value[1] * result.value[2] > n_cores_required

\* C4: for positive c <= n the call returns (1, c).
C4_FitsOneNode ==
    AllocDone /\ ValidRequest /\ n_cores_required <= tot_cores_per_node =>
        result = Return(<<1, n_cores_required>>)

\* a request for part of one node
C4_Witness ==
    /\ AllocDone /\ ValidRequest
    /\ 1 < n_cores_required /\ n_cores_required < tot_cores_per_node
    /\ result = Return(<<1, n_cores_required>>)

\* C5: with 128 cores per node, 192 required cores give (2, 96), 129 give
\* (2, 65) and 256 give (2, 128).
C5_Examples ==
    AllocDone /\ tot_cores_per_node = 128 =>
        /\ n_cores_required = 192 => result = Return(<<2, 96>>)
        /\ n_cores_required = 129 => result = Return(<<2, 65>>)
        /\ n_cores_required = 256 => result = Return(<<2, 128>>)

\* the docstring's example has been computed
C5_Witness ==
    /\ AllocDone
    /\ tot_cores_per_node = 128 /\ n_cores_required = 192
    /\ result = Return(<<2, 96>>)

\* C6: a call with cores_required < 1 or tot_cores_per_node < 1 fails with
\* an error and returns no plan.
C6_NonPositiveInputFails ==
    AllocDone /\ ~ValidRequest => result.kind = "raise"

----------------------------------------------------------------------------
(* Properties of _get_hash_from_checkout_target *)

HashDone == op = "get_hash_from_checkout_target" /\ pc = "done"

\* a string of exactly 7 or exactly 40 lower-case hexadecimal digits
IsHexString(t) ==
    /\ Len(t) \in {ShortHashLen, FullHashLen}
    /\ \A i \in 1..Len(t) : t[i] \in HexDigits

\* C7: a non-empty listing gives its first whitespace-separated token; an
\* empty listing and a 7- or 40-character lower-case hexadecimal target give
\* the target; ValueError is raised exactly when the listing is empty and
\* the target is no such string.
C7_ResolutionTable ==
    HashDone =>
        LET listing == runs[1].stdout IN
        /\ listing # <<>> =>
              /\ result.kind = "return"
              /\ Split(listing) # <<>>
              /\ result.value = Split(listing)[1]
        /\ listing = <<>> /\ IsHexString(checkout_target) =>
              result = Return(checkout_target)
        /\ (result.kind = "raise" /\ result.exc = "ValueError")
              <=> (listing = <<>> /\ ~IsHexString(checkout_target))

\* C8: a 7- or 40-digit hexadecimal target is returned itself, whatever the
\* remote listing gives.
C8_HashTargetReturned ==
    HashDone /\ IsHexString(checkout_target) => result = Return(checkout_target)

----------------------------------------------------------------------------
(* Properties of the git helpers *)

GitOps ==
    {"clone_and_checkout", "get_repo_remote", "get_repo_head_hash",
     "get_hash_from_checkout_target"}

\* C9: every operation that runs git ends, when a git command of it exited
\* nonzero, in an error carrying that exit code and the captured error text.
C9_NonzeroExitRaises ==
    Done /\ op \in GitOps =>
        \A i \in 1..Len(runs) :
            runs[i].returncode # 0 =>
                /\ result.kind = "raise"
                /\ "code" \in DOMAIN result
                /\ result.code = runs[i].returncode
                /\ result.text = runs[i].stderr

\* C10: in _clone_and_checkout git checkout is run only after git clone
\* exited 0; a nonzero clone raises RuntimeError with no checkout; a nonzero
\* checkout after a good clone raises RuntimeError; the call returns only
\* when both exited 0.
C10_CheckoutAfterGoodClone ==
    op = "clone_and_checkout" =>
        /\ \A i \in 1..Len(runs) :
              runs[i].cmd = "checkout" =>
                  i = 2 /\ runs[1].cmd = "clone" /\ runs[1].returncode = 0
        /\ Len(runs) >= 1 /\ runs[1].returncode # 0 =>
              /\ pc = "done"
              /\ Len(runs) = 1
              /\ result.kind = "raise" /\ result.exc = "RuntimeError"
        /\ Len(runs) = 2 /\ runs[2].returncode # 0 =>
              /\ pc = "done"
              /\ result.kind = "raise" /\ result.exc = "RuntimeError"
        /\ result.kind = "return" =>
              /\ Len(runs) = 2
              /\ runs[1].cmd = "clone" /\ runs[1].returncode = 0
              /\ runs[2].cmd = "checkout" /\ runs[2].returncode = 0
        /\ pc = "done" => result.kind # "none"

\* the clone went well and the checkout failed
C10_Witness ==
    /\ op = "clone_and_checkout" /\ pc = "done"
    /\ Len(runs) = 2
    /\ runs[1].returncode = 0 /\ runs[2].returncode # 0
    /\ result.kind = "raise"

----------------------------------------------------------------------------
(* Properties of _write_to_config_file *)

\* s1 + ... + sk
RECURSIVE Concat(_)
Concat(strs) ==
    IF strs = <<>> THEN <<>> ELSE Head(strs) \o Concat(Tail(strs))

\* the generated header: the comment line, the two imports, the def line
C11_Header ==
    <<"# This file was generated by C-Star and is specific to your machine. ",
      "# It contains environment information related to your cases & their dependencies. ",
      "# You can safely delete this file, but C-Star may prompt you to re-install things if so.",
      "\n",
      "import os", "\n",
      "from cstar.base.environment import _CSTAR_ENVIRONMENT_VARIABLES", "\n",
      "def get_user_environment():", "\n">>

\* C11: from an absent config file, after calls _write_to_config_file(s1),
\* ..., _write_to_config_file(sk), k >= 1, the file holds the header once
\* and then s1, ..., sk in call order; calls on a file that was there
\* already keep its content and only append their arguments.
C11_HeaderOnceThenAppends ==
    op = "write_to_config_file" =>
        /\ ~file_at_start.exists /\ written = <<>> => ~config_file.exists
        /\ ~file_at_start.exists /\ Len(written) >= 1 =>
              /\ config_file.exists
              /\ config_file.content = C11_Header \o Concat(written)
        /\ file_at_start.exists =>
              /\ config_file.exists
              /\ config_file.content = file_at_start.content \o Concat(written)

\* the file was absent and has been written to twice, with different text
C11_Witness ==
    /\ op = "write_to_config_file"
    /\ ~file_at_start.exists
    /\ Len(written) >= 2
    /\ written[1] # <<>> /\ written[2] # <<>> /\ written[1] # written[2]
    /\ config_file.content = C11_Header \o written[1] \o written[2]

====
